---------------------------- MODULE Spec2Model ----------------------------
(***************************************************************************)
(* A model of the statistical sampler web API.                             *)
(*                                                                         *)
(* The repository ships two FastAPI applications with the same three       *)
(* endpoints:                                                              *)
(*   - build/lib/src/endpoints.py: sample definitions live in a SQLite     *)
(*     table with a UNIQUE constraint over the definition tuple;           *)
(*   - main.py: sample definitions live in the module-global dict `db`,    *)
(*     keyed by the module-global counter `ID`.                            *)
(* A behaviour of Spec runs one of the two (variable `app`).  The          *)
(* endpoints.py application is run by several server processes (Workers),  *)
(* each with its own SQLite connection to the one database file; its       *)
(* registration handler is modelled statement by statement.  The main.py   *)
(* handlers touch only process memory and are atomic.                      *)
(*                                                                         *)
(* SpecValidate applies the validation of both generate_sample_entry       *)
(* handlers to every request of a bounded request space.                   *)
(*                                                                         *)
(* SpecStatistics runs get_sample_statistics of endpoints.py on a store    *)
(* that holds one row, for every request of that space that the handler    *)
(* stores a row for.                                                       *)
(***************************************************************************)
EXTENDS Integers, Sequences, FiniteSets, TLC

VARIABLES
    app,        \* "endpoints" | "main" | "validate": the program being run
    table,      \* endpoints.py: committed rows of sample_definitions
    seq,        \* endpoints.py: committed AUTOINCREMENT counter (sqlite_sequence)
    writer,     \* endpoints.py: connection holding the database write lock
    inTx,       \* endpoints.py: per connection, a transaction is open
    pending,    \* endpoints.py: per connection, rows inserted and not committed
    pc,         \* endpoints.py: per worker, position in generate_sample_entry
    req,        \* endpoints.py: per worker, the sample being registered
    lastrowid,  \* endpoints.py: per worker, cursor.lastrowid of its INSERT
    raced,      \* per worker: another worker handled the same tuple meanwhile
    ID,         \* main.py: the global ID counter
    db,         \* main.py: the global dict, id -> Sample
    resp,       \* the response (or raised exception) of the last finished request
    returned,   \* history: <<tuple, id>> of every registration that returned an id
    vin,        \* SpecValidate: the request being validated
    vout        \* SpecValidate: what each validation did with it

vars == <<app, table, seq, writer, inTx, pending, pc, req, lastrowid, raced,
          ID, db, resp, returned, vin, vout>>

storeVars == <<table, seq, writer, inTx, pending, pc, req, lastrowid, raced>>
mainVars == <<ID, db>>
validateVars == <<vin, vout>>

----------------------------------------------------------------------------
(* Bounds of the model *)

\* Longest params list of a request.
MaxLen == 3

\* Largest num_samples of a request (the smallest is -1).
MaxSamples == 3

\* Most records the store is filled with.
MaxRows == 2

----------------------------------------------------------------------------
(* distributions.py: the request model *)

Distributions == {"uniform", "normal", "weibull"}

ParameterTypes == {"min", "max", "mean", "std", "shape", "scale"}

\* A Python float: a number, or NaN (which compares False with everything).
F(x) == [nan |-> FALSE, v |-> x]
NaN == [nan |-> TRUE, v |-> 0]
Floats == {F(-1), F(0), F(1), NaN}

\* A slip: a < 0 written for a <= 0.
LtZero(a) == ~a.nan /\ a.v < 0

\* Python's  a <= 0  on a float.
LeqZero(a) == ~a.nan /\ a.v <= 0

Parameter == [param_type : ParameterTypes, param_val : Floats]

P(role, x) == [param_type |-> role, param_val |-> x]

\* A family tag the Distributions enum does not have.
UnknownTag == "exponential"

FamilyTags == Distributions \cup {UnknownTag}

\* Entries of a params list after the second: no code path reads them.
TailParameters == {P("max", F(1)), P("shape", NaN)}

ParamLists ==
    UNION { IF k <= 2 THEN [1..k -> Parameter]
            ELSE { h \o t : h \in [1..2 -> Parameter],
                            t \in [1..(k - 2) -> TailParameters] }
          : k \in 0..MaxLen }

\* The JSON bodies a caller may post to /sample.
Requests ==
    [distribution_type : FamilyTags, num_samples : -1..MaxSamples,
     params : ParamLists]

\* pydantic's decode of the body into a Sample: the family tag must be a
\* member of the Distributions enum, else the request is answered 422 and the
\* handler is not called.
Decodes(body) == body.distribution_type \in Distributions

----------------------------------------------------------------------------
(* Exceptions and results of the validation *)

Raise(exc, msg, reads) == [exc |-> exc, msg |-> msg, reads |-> reads]

\* Validation fell through: the sample is accepted.
Pass(reads) == [exc |-> "none", msg |-> "", reads |-> reads]

Accepted(r) == r.exc = "none"

(***************************************************************************)
(* endpoints.py, generate_sample_entry, lines 94-131.  `reads` collects    *)
(* the (Python, 0-based) indices of the params entries the code read.      *)
(* TLA+ sequences are 1-based: params[0] is s.params[1].                   *)
(***************************************************************************)
ValidateUniform(s) ==
    IF Len(s.params) # 2
    THEN Raise("TypeError", "Uniform distribution requires exactly two parameters", {})
    ELSE IF s.params[1].param_type # "min"
    THEN Raise("TypeError", "First parameter must be min", {0})
    ELSE IF s.params[2].param_type # "max"
    THEN Raise("TypeError", "Second parameter must be max", {0, 1})
    ELSE Pass({0, 1})

\* A slip: the role of the second parameter is not checked.
ValidateNormalFirstRoleOnly(s) ==
    IF Len(s.params) # 2
    THEN Raise("TypeError", "Normal distribution requires exactly two parameters", {})
    ELSE IF s.params[1].param_type # "mean"
    THEN Raise("TypeError", "First parameter must be mean", {0})
    ELSE IF LeqZero(s.params[2].param_val)
    THEN Raise("ValueError", "Standard deviation must be positive", {0, 1})
    ELSE Pass({0, 1})

ValidateNormal(s) ==
    IF Len(s.params) # 2
    THEN Raise("TypeError", "Normal distribution requires exactly two parameters", {})
    ELSE IF s.params[1].param_type # "mean"
    THEN Raise("TypeError", "First parameter must be mean", {0})
    ELSE IF s.params[2].param_type # "std"
    THEN Raise("TypeError", "Second parameter must be std", {0, 1})
    ELSE IF LeqZero(s.params[2].param_val)
    THEN Raise("ValueError", "Standard deviation must be positive", {0, 1})
    ELSE Pass({0, 1})

ValidateWeibull(s) ==
    IF Len(s.params) # 2
    THEN Raise("TypeError", "Weibull distribution requires exactly two parameters", {})
    ELSE IF s.params[1].param_type # "shape"
    THEN Raise("TypeError", "First parameter must be shape", {0})
    ELSE IF s.params[2].param_type # "scale"
    THEN Raise("TypeError", "Second parameter must be scale", {0, 1})
    ELSE IF LeqZero(s.params[1].param_val)
    THEN Raise("ValueError", "Shape must be positive", {0, 1})
    ELSE IF LeqZero(s.params[2].param_val)
    THEN Raise("ValueError", "Scale must be positive", {0, 1})
    ELSE Pass({0, 1})

\* A slip: no else branch, as in main.py.
ValidateNoElse(s) ==
    IF s.num_samples <= 1
    THEN Raise("ValueError", "Number of samples must be two or greater", {})
    ELSE IF s.distribution_type = "uniform" THEN ValidateUniform(s)
    ELSE IF s.distribution_type = "normal" THEN ValidateNormal(s)
    ELSE IF s.distribution_type = "weibull" THEN ValidateWeibull(s)
    ELSE Pass({})

Validate(s) ==
    IF s.num_samples <= 1
    THEN Raise("ValueError", "Number of samples must be two or greater", {})
    ELSE IF s.distribution_type = "uniform" THEN ValidateUniform(s)
    ELSE IF s.distribution_type = "normal" THEN ValidateNormal(s)
    ELSE IF s.distribution_type = "weibull" THEN ValidateWeibull(s)
    ELSE Raise("ValueError", "Invalid distribution type", {})

(***************************************************************************)
(* main.py, generate_sample_entry, lines 47-75: no check of num_samples,   *)
(* no else branch.                                                         *)
(***************************************************************************)
MainValidateUniform(s) ==
    IF Len(s.params) # 2
    THEN Raise("TypeError", "Uniform distribution requires two parameters", {})
    ELSE IF s.params[1].param_type # "min"
    THEN Raise("TypeError", "First parameter must be min", {0})
    ELSE IF s.params[2].param_type # "max"
    THEN Raise("TypeError", "Second parameter must be max", {0, 1})
    ELSE Pass({0, 1})

MainValidateNormal(s) ==
    IF Len(s.params) # 2
    THEN Raise("TypeError", "Normal distribution requires two parameters", {})
    ELSE IF s.params[1].param_type # "mean"
    THEN Raise("TypeError", "First parameter must be mean", {0})
    ELSE IF s.params[2].param_type # "std"
    THEN Raise("TypeError", "Second parameter must be std", {0, 1})
    ELSE IF LeqZero(s.params[2].param_val)
    THEN Raise("ValueError", "Standard deviation must be positive", {0, 1})
    ELSE Pass({0, 1})

MainValidateWeibull(s) ==
    IF Len(s.params) # 2
    THEN Raise("TypeError", "Weibull distribution requires two parameters", {})
    ELSE IF s.params[1].param_type # "shape"
    THEN Raise("TypeError", "First parameter must be shape", {0})
    ELSE IF s.params[2].param_type # "scale"
    THEN Raise("TypeError", "Second parameter must be scale", {0, 1})
    ELSE IF LeqZero(s.params[1].param_val)
    THEN Raise("ValueError", "Shape must be positive", {0, 1})
    ELSE IF LeqZero(s.params[2].param_val)
    THEN Raise("ValueError", "Scale must be positive", {0, 1})
    ELSE Pass({0, 1})

MainValidate(s) ==
    IF s.distribution_type = "uniform" THEN MainValidateUniform(s)
    ELSE IF s.distribution_type = "normal" THEN MainValidateNormal(s)
    ELSE IF s.distribution_type = "weibull" THEN MainValidateWeibull(s)
    ELSE Pass({})

----------------------------------------------------------------------------
(* SpecValidate: the validation applied to every request *)

NoRequest == [distribution_type |-> "", num_samples |-> 0, params |-> <<>>]

NoVerdict ==
    [posted |-> FALSE, decoded |-> FALSE, endpoints |-> Pass({}), main |-> Pass({})]

\* POST /sample with the body vin, as far as the end of the validation.
PostSample ==
    /\ app = "validate"
    /\ vout = NoVerdict
    /\ vout' = [posted |-> TRUE,
                decoded |-> Decodes(vin),
                endpoints |-> Validate(vin),
                main |-> MainValidate(vin)]
    /\ UNCHANGED <<app, vin, storeVars, mainVars, resp, returned>>


----------------------------------------------------------------------------
(* The store of endpoints.py: one SQLite file, one connection per worker *)

Workers == {"w1", "w2"}

NoWorker == "none"

\* The values bound to the INSERT and to the dedup SELECT (lines 139-142,
\* 148-151): the definition tuple.
TupleOf(s) ==
    [distribution_type |-> s.distribution_type,
     param_one |-> s.params[1].param_val,
     param_two |-> s.params[2].param_val,
     num_samples |-> s.num_samples]

RowTuple(row) ==
    [distribution_type |-> row.distribution_type,
     param_one |-> row.param_one,
     param_two |-> row.param_two,
     num_samples |-> row.num_samples]

\* A slip: the two parameter values bound to the INSERT in the wrong order.
MkRowSwapped(id, t) ==
    [id |-> id,
     distribution_type |-> t.distribution_type,
     param_one |-> t.param_two,
     param_two |-> t.param_one,
     num_samples |-> t.num_samples]

MkRow(id, t) ==
    [id |-> id,
     distribution_type |-> t.distribution_type,
     param_one |-> t.param_one,
     param_two |-> t.param_two,
     num_samples |-> t.num_samples]

\* A slip: every statement opens a transaction.
BeginsTransactionAlways(statement) == TRUE

\* Python's sqlite3 opens a transaction before a data-modifying statement
\* when none is open, and none before a SELECT.
BeginsTransaction(statement) == statement \in {"INSERT", "UPDATE", "DELETE", "REPLACE"}

\* What the connection of worker w reads: the committed rows and its own
\* uncommitted ones.
View(w) == table \cup pending[w]

SetMax(S) == IF S = {} THEN 0 ELSE CHOOSE x \in S : \A y \in S : y <= x

\* A slip: the largest id is handed out again.
NextRowIdNoIncrement(w) == SetMax({seq} \cup {r.id : r \in View(w)} \cup {1})

\* id INTEGER PRIMARY KEY AUTOINCREMENT: one more than the largest id the
\* table has ever held (sqlite_sequence, itself under the transaction).
NextRowId(w) == SetMax({seq} \cup {r.id : r \in View(w)}) + 1

\* sqlite3 binds a NaN float as NULL.
NotNullFails(t) == t.param_one.nan \/ t.param_two.nan

\* CHECK(num_samples >= 2)
CheckFails(t) == ~(t.num_samples >= 2)

\* UNIQUE(distribution_type, param_one, param_two, num_samples)
UniqueFails(rows, t) == \E r \in rows : RowTuple(r) = t

\* A store without the write lock: an INSERT sees only committed rows and its
\* own, and is never refused for another connection's open write.
InsertOutcomeNoLock(w, t) ==
    IF NotNullFails(t) THEN "NOT NULL constraint failed"
    ELSE IF CheckFails(t) THEN "CHECK constraint failed"
    ELSE IF UniqueFails(View(w), t) THEN "UNIQUE constraint failed"
    ELSE "ok"

\* The INSERT of worker w (lines 136-142): the write lock first, then the
\* table's constraints in SQLite's order.
InsertOutcome(w, t) ==
    IF writer \notin {NoWorker, w} THEN "database is locked"
    ELSE IF NotNullFails(t) THEN "NOT NULL constraint failed"
    ELSE IF CheckFails(t) THEN "CHECK constraint failed"
    ELSE IF UniqueFails(View(w), t) THEN "UNIQUE constraint failed"
    ELSE "ok"

\* A slip: the dedup SELECT without its WHERE clause.
SelectIdsNoWhere(w, t) == {r.id : r \in View(w)}

\* SELECT id ... WHERE the four columns equal the tuple (lines 145-151).
SelectIds(w, t) == {r.id : r \in {x \in View(w) : RowTuple(x) = t}}

\* SELECT * FROM sample_definitions WHERE id = ? (line 208)
SelectById(w, id) == {r \in View(w) : r.id = id}

----------------------------------------------------------------------------
(* Requests and responses of the running applications *)

S2(f, r1, a, r2, b, n) ==
    [distribution_type |-> f, num_samples |-> n,
     params |-> <<P(r1, F(a)), P(r2, F(b))>>]

\* The sample definitions callers register with the running application:
\* a base definition, one differing from it in each component of the tuple,
\* and definitions that fail in the validation or in the INSERT.
StoreSamples ==
    { S2("uniform", "min", 0, "max", 1, 2),
      S2("uniform", "min", 1, "max", 1, 2),
      S2("uniform", "min", 0, "max", 0, 2),
      S2("normal", "mean", 0, "std", 1, 2),
      S2("uniform", "min", 0, "max", 1, MaxSamples),
      S2("normal", "mean", 0, "std", 0, 2),
      S2("uniform", "min", 0, "max", 1, 1),
      [distribution_type |-> "uniform", num_samples |-> 2,
       params |-> <<P("min", NaN), P("max", F(1))>>] }

\* The identifiers callers ask statistics for.
StatIds == {-1} \cup 1..(MaxRows + 1)

NoResp ==
    [op |-> "none", w |-> NoWorker, exc |-> "none", msg |-> "", via |-> "",
     raced |-> FALSE, arg |-> <<>>, val |-> <<>>]

\* A handler raised; via names the statement whose exception is the cause.
Raised(op, w, exc, msg, via, arg) ==
    [op |-> op, w |-> w, exc |-> exc, msg |-> msg, via |-> via,
     raced |-> FALSE, arg |-> arg, val |-> <<>>]

\* A handler returned val.
Returned(op, w, via, rc, arg, val) ==
    [op |-> op, w |-> w, exc |-> "none", msg |-> "", via |-> via,
     raced |-> rc, arg |-> arg, val |-> val]

Issued(t, id) == [tuple |-> t, id |-> id]

InFlight(w) == pc[w] # "idle"

\* Rows the store holds or is about to hold; registrations stop at MaxRows.
Filling == Cardinality(table) + Cardinality({w \in Workers : pc[w] \in {"insert", "commit"}})


----------------------------------------------------------------------------
(* The statistics of a sample definition (endpoints.py lines 217-263,      *)
(* main.py lines 122-168)                                                  *)

\* Float arithmetic; NaN propagates.
FAdd(a, b) == IF a.nan \/ b.nan THEN NaN ELSE F(a.v + b.v)
FSub(a, b) == IF a.nan \/ b.nan THEN NaN ELSE F(a.v - b.v)
FMul(a, k) == IF a.nan THEN NaN ELSE F(a.v * k)

\* The float  num / (den * sqrt(root)),  kept exact.
Quot(num, den, root) == [num |-> num, den |-> den, root |-> root]

\* abs(a - b), kept as the term it is.
AbsDiff(a, b) == [abs_of |-> a, minus |-> b]

\* scipy.special.gamma at a positive integer n: (n - 1)!
RECURSIVE gamma(_)
gamma(n) == IF n <= 1 THEN 1 ELSE (n - 1) * gamma(n - 1)

\* np.sqrt of a perfect square.
sqrt(n) == CHOOSE r \in 0..n : r * r = n

\* A slip: the uniform standard deviation taken as min - max.
UniformStdSwapped(param_one, param_two) == Quot(FSub(param_one, param_two), 1, 12)

\* Lines 228-229: (param_two - param_one) / np.sqrt(12)
UniformStd(param_one, param_two) == Quot(FSub(param_two, param_one), 1, 12)

\* Lines 222-249: mean_dist and std_dist of the family.  The weibull terms
\* are computed for shape 1: gamma(1 + 1/1) = 1 and gamma(1 + 2/1) = 2.  The
\* one other shape of Floats that a validation accepts is NaN, of which both
\* terms are NaN; shapes <= 0 are rejected and never stored.
TheoreticalMoments(distribution_type, param_one, param_two) ==
    IF distribution_type = "uniform"
    THEN [recognized |-> TRUE,
          mean_dist |-> Quot(FAdd(param_one, param_two), 2, 1),
          std_dist |-> UniformStd(param_one, param_two)]
    ELSE IF distribution_type = "normal"
    THEN [recognized |-> TRUE,
          mean_dist |-> Quot(param_one, 1, 1),
          std_dist |-> Quot(param_two, 1, 1)]
    ELSE IF distribution_type = "weibull"
    THEN IF ~param_one.nan /\ param_one.v = 1
         THEN [recognized |-> TRUE,
               mean_dist |-> Quot(FMul(param_two, gamma(1 + 1)), 1, 1),
               std_dist |-> Quot(FMul(param_two,
                                      sqrt(gamma(1 + 2) - gamma(1 + 1) * gamma(1 + 1))),
                                 1, 1)]
         ELSE [recognized |-> TRUE,
               mean_dist |-> Quot(NaN, 1, 1),
               std_dist |-> Quot(NaN, 1, 1)]
    ELSE [recognized |-> FALSE,
          mean_dist |-> Quot(NaN, 1, 1),
          std_dist |-> Quot(NaN, 1, 1)]

\* What np.mean(sample) and np.std(sample, ddof=1) of the freshly drawn
\* random sample may come to.
SampleMoments == {[mean |-> F(0), std |-> F(1)], [mean |-> F(1), std |-> F(0)]}

\* The same for a sample of num_samples draws: the ddof=1 estimate of one
\* draw is 0/0, and the mean of no draw is as well.
Drawn(num_samples) ==
    IF num_samples >= 2 THEN SampleMoments
    ELSE IF num_samples = 1 THEN {[mean |-> d.mean, std |-> NaN] : d \in SampleMoments}
    ELSE {[mean |-> NaN, std |-> NaN]}

\* distributions.py lines 105-129.
SampleStatistics(mean_samples, std_samples, mean_dist, std_dist, error_mean, error_std) ==
    [mean_samples |-> mean_samples, std_samples |-> std_samples,
     mean_dist |-> mean_dist, std_dist |-> std_dist,
     error_mean |-> error_mean, error_std |-> error_std]

\* Lines 251-263: the statistics of the drawn sample against the moments m.
Stats(m, drawn) ==
    SampleStatistics(drawn.mean, drawn.std, m.mean_dist, m.std_dist,
                     AbsDiff(drawn.mean, m.mean_dist),
                     AbsDiff(drawn.std, m.std_dist))

----------------------------------------------------------------------------
(* endpoints.py: POST /sample, generate_sample_entry (lines 77-165) *)

\* Lines 92-134: worker w takes a request, validates the sample and, when it
\* is accepted, opens a cursor for the INSERT.
generate_sample_entry(w, s) ==
    /\ app = "endpoints"
    /\ pc[w] = "idle"
    /\ IF ~Accepted(Validate(s))
       THEN /\ resp' = Raised("generate", w, Validate(s).exc, Validate(s).msg, "validate", s)
            /\ UNCHANGED <<storeVars, returned>>
       ELSE /\ Filling < MaxRows \/ UniqueFails(table, TupleOf(s))
            /\ pc' = [pc EXCEPT ![w] = "insert"]
            /\ req' = [req EXCEPT ![w] = s]
            /\ raced' = [x \in Workers |->
                           IF x = w
                           THEN \E y \in Workers \ {w} :
                                    InFlight(y) /\ TupleOf(req[y]) = TupleOf(s)
                           ELSE raced[x] \/ (InFlight(x) /\ TupleOf(req[x]) = TupleOf(s))]
            /\ UNCHANGED <<table, seq, writer, inTx, pending, lastrowid, resp, returned>>
    /\ UNCHANGED <<app, mainVars, validateVars>>

\* Lines 136-157: cursor.execute(INSERT ...).  sqlite3 first begins a
\* transaction when none is open.  The statement either inserts the row
\* (uncommitted), or fails: on the UNIQUE constraint the handler goes on to
\* the SELECT, on any other error to the rollback.
Insert(w) ==
    /\ app = "endpoints"
    /\ pc[w] = "insert"
    /\ inTx' = [inTx EXCEPT ![w] = @ \/ BeginsTransaction("INSERT")]
    /\ LET t == TupleOf(req[w])
           out == InsertOutcome(w, t)
           id == NextRowId(w)
       IN  /\ writer' = IF out = "database is locked" THEN writer ELSE w
           /\ IF out = "ok"
              THEN /\ pending' = [pending EXCEPT ![w] = @ \cup {MkRow(id, t)}]
                   /\ lastrowid' = [lastrowid EXCEPT ![w] = id]
                   /\ pc' = [pc EXCEPT ![w] = "commit"]
              ELSE /\ pc' = [pc EXCEPT ![w] =
                                IF out = "UNIQUE constraint failed"
                                THEN "select" ELSE "rollback"]
                   /\ UNCHANGED <<pending, lastrowid>>
    /\ UNCHANGED <<app, table, seq, req, raced, mainVars, resp, returned, validateVars>>

\* Lines 145-152 and 163: the dedup SELECT; the handler returns the id it
\* finds.  Nothing ends the transaction the INSERT began.
Select(w) ==
    /\ app = "endpoints"
    /\ pc[w] = "select"
    /\ LET t == TupleOf(req[w])
           ids == SelectIds(w, t)
       IN  IF ids = {}
           THEN \* fetchone() is None: None[0]
                /\ resp' = Raised("generate", w, "TypeError",
                                  "'NoneType' object is not subscriptable",
                                  "select", req[w])
                /\ UNCHANGED returned
           ELSE \E id \in ids :
                /\ resp' = Returned("generate", w, "select", raced[w], req[w], id)
                /\ returned' = returned \cup {Issued(t, id)}
    /\ pc' = [pc EXCEPT ![w] = "idle"]
    /\ req' = [req EXCEPT ![w] = NoRequest]
    /\ raced' = [raced EXCEPT ![w] = FALSE]
    /\ UNCHANGED <<app, table, seq, writer, inTx, pending, lastrowid,
                   mainVars, validateVars>>

\* Lines 157-158, 163-165: ID = cursor.lastrowid; commit; return {'ID': ID}.
Commit(w) ==
    /\ app = "endpoints"
    /\ pc[w] = "commit"
    /\ table' = table \cup pending[w]
    /\ seq' = SetMax({seq} \cup {r.id : r \in pending[w]})
    /\ pending' = [pending EXCEPT ![w] = {}]
    /\ inTx' = [inTx EXCEPT ![w] = FALSE]
    /\ writer' = NoWorker
    /\ pc' = [pc EXCEPT ![w] = "idle"]
    /\ raced' = [raced EXCEPT ![w] = FALSE]
    /\ resp' = Returned("generate", w, "insert", raced[w], req[w], lastrowid[w])
    /\ returned' = returned \cup {Issued(TupleOf(req[w]), lastrowid[w])}
    /\ req' = [req EXCEPT ![w] = NoRequest]
    /\ lastrowid' = [lastrowid EXCEPT ![w] = 0]
    /\ UNCHANGED <<app, mainVars, validateVars>>

\* Line 158: the commit raises sqlite3.Error (the store fails).
CommitFails(w) ==
    /\ app = "endpoints"
    /\ pc[w] = "commit"
    /\ pc' = [pc EXCEPT ![w] = "rollback"]
    /\ UNCHANGED <<app, table, seq, writer, inTx, pending, req, lastrowid, raced,
                   mainVars, resp, returned, validateVars>>

\* A slip: the rollback is missing.
NotRolledBack(rows) == rows

\* What connection.rollback() leaves of the connection's uncommitted rows.
RolledBack(rows) == {}

\* Lines 153-156 and 159-163: rollback, then raise sqlite3.Error.
Rollback(w) ==
    /\ app = "endpoints"
    /\ pc[w] = "rollback"
    /\ pending' = [pending EXCEPT ![w] = RolledBack(@)]
    /\ inTx' = [inTx EXCEPT ![w] = FALSE]
    /\ writer' = IF writer = w THEN NoWorker ELSE writer
    /\ pc' = [pc EXCEPT ![w] = "idle"]
    /\ raced' = [raced EXCEPT ![w] = FALSE]
    /\ resp' = Raised("generate", w, "sqlite3.Error",
                      "Failed to insert sample into database.",
                      IF pending[w] = {} THEN "insert" ELSE "commit", req[w])
    /\ req' = [req EXCEPT ![w] = NoRequest]
    /\ lastrowid' = [lastrowid EXCEPT ![w] = 0]
    /\ UNCHANGED <<app, table, seq, mainVars, returned, validateVars>>

(* endpoints.py: GET /samples, get_samples (lines 168-186) *)
get_samples(w) ==
    /\ app = "endpoints"
    /\ pc[w] = "idle"
    /\ inTx' = [inTx EXCEPT ![w] = @ \/ BeginsTransaction("SELECT")]
    /\ resp' = Returned("samples", w, "", FALSE, <<>>, View(w))
    /\ UNCHANGED <<app, table, seq, writer, pending, pc, req, lastrowid, raced,
                   mainVars, returned, validateVars>>

(* endpoints.py: GET /sample/{id}/statistics, get_sample_statistics
   (lines 189-263) *)
get_sample_statistics(w, id) ==
    /\ app = "endpoints"
    /\ pc[w] = "idle"
    /\ inTx' = [inTx EXCEPT ![w] = @ \/ BeginsTransaction("SELECT")]
    /\ IF SelectById(w, id) = {}
       THEN resp' = Raised("statistics", w, "ValueError", "No sample with ID exists",
                          "", id)
       ELSE \E sample_def \in SelectById(w, id) :
            \E drawn \in Drawn(sample_def.num_samples) :
                LET m == TheoreticalMoments(sample_def.distribution_type,
                                            sample_def.param_one,
                                            sample_def.param_two)
                IN  IF ~m.recognized
                    THEN resp' = Raised("statistics", w, "ValueError",
                                        "Distribution type not recognized", "", id)
                    ELSE IF sample_def.num_samples < 0
                    THEN \* rng.uniform(..., (num_samples, 1))
                         resp' = Raised("statistics", w, "ValueError",
                                        "negative dimensions are not allowed", "", id)
                    ELSE resp' = Returned("statistics", w, "", FALSE, id,
                                          <<sample_def, Stats(m, drawn)>>)
    /\ UNCHANGED <<app, table, seq, writer, pending, pc, req, lastrowid, raced,
                   mainVars, returned, validateVars>>

----------------------------------------------------------------------------
(* main.py: the same endpoints over the global dict *)

MainWorker == "main"

\* Lines 30-79: validate, then db[ID] = sample; ID += 1; return {"ID": ID-1}.
main_generate_sample_entry(s) ==
    /\ app = "main"
    /\ IF ~Accepted(MainValidate(s))
       THEN /\ resp' = Raised("generate", MainWorker, MainValidate(s).exc,
                              MainValidate(s).msg, "validate", s)
            /\ UNCHANGED <<mainVars, returned>>
       ELSE /\ ID <= MaxRows
            /\ db' = [i \in DOMAIN db \cup {ID} |-> IF i = ID THEN s ELSE db[i]]
            /\ ID' = ID + 1
            /\ resp' = Returned("generate", MainWorker, "insert", FALSE, s, ID' - 1)
            /\ returned' = returned \cup {Issued(TupleOf(s), ID' - 1)}
    /\ UNCHANGED <<app, storeVars, validateVars>>

\* Lines 90-100.
main_get_samples ==
    /\ app = "main"
    /\ resp' = Returned("samples", MainWorker, "", FALSE, <<>>, db)
    /\ UNCHANGED <<app, storeVars, mainVars, returned, validateVars>>

\* Lines 103-168: sample_def = db[id] raises KeyError for a missing key.
main_get_sample_statistics(id) ==
    /\ app = "main"
    /\ IF id \notin DOMAIN db
       THEN resp' = Raised("statistics", MainWorker, "KeyError", "", "", id)
       ELSE \E drawn \in Drawn(db[id].num_samples) :
                LET sample_def == db[id]
                    m == TheoreticalMoments(sample_def.distribution_type,
                                            sample_def.params[1].param_val,
                                            sample_def.params[2].param_val)
                IN  IF ~m.recognized
                    THEN resp' = Raised("statistics", MainWorker, "ValueError",
                                        "Distribution type not recognized", "", id)
                    ELSE IF sample_def.num_samples < 0
                    THEN \* rng.uniform(..., (num_samples, 1))
                         resp' = Raised("statistics", MainWorker, "ValueError",
                                        "negative dimensions are not allowed", "", id)
                    ELSE resp' = Returned("statistics", MainWorker, "", FALSE, id,
                                          <<sample_def, Stats(m, drawn)>>)
    /\ UNCHANGED <<app, storeVars, mainVars, returned, validateVars>>

----------------------------------------------------------------------------
(* Specifications *)

\* endpoints.py after startup (lines 32-64) on a new database file: the table
\* exists and is empty, no transaction is open.  main.py after import
\* (lines 23-25): ID = 1, db = {}.
InitStore ==
    /\ table = {}
    /\ seq = 0
    /\ writer = NoWorker
    /\ inTx = [w \in Workers |-> FALSE]
    /\ pending = [w \in Workers |-> {}]
    /\ pc = [w \in Workers |-> "idle"]
    /\ req = [w \in Workers |-> NoRequest]
    /\ lastrowid = [w \in Workers |-> 0]
    /\ raced = [w \in Workers |-> FALSE]

InitMain ==
    /\ ID = 1
    /\ db = <<>>

InitRest ==
    /\ resp = NoResp
    /\ returned = {}
    /\ vin = NoRequest
    /\ vout = NoVerdict

Init ==
    /\ app \in {"endpoints", "main"}
    /\ InitStore /\ InitMain /\ InitRest

Next ==
    \/ \E w \in Workers, s \in StoreSamples : generate_sample_entry(w, s)
    \/ \E w \in Workers : Insert(w)
    \/ \E w \in Workers : Select(w)
    \/ \E w \in Workers : Commit(w)
    \/ \E w \in Workers : CommitFails(w)
    \/ \E w \in Workers : Rollback(w)
    \/ \E w \in Workers : get_samples(w)
    \/ \E w \in Workers, id \in StatIds : get_sample_statistics(w, id)
    \/ \E s \in StoreSamples : main_generate_sample_entry(s)
    \/ main_get_samples
    \/ \E id \in StatIds : main_get_sample_statistics(id)

Spec == Init /\ [][Next]_vars

InitValidate ==
    /\ app = "validate"
    /\ InitStore /\ InitMain
    /\ resp = NoResp
    /\ returned = {}
    /\ vin \in Requests
    /\ vout = NoVerdict

NextValidate == PostSample

SpecValidate == InitValidate /\ [][NextValidate]_vars

\* The requests a registration with endpoints.py stores a row for: the
\* validation accepts them and the table's constraints hold of their row.
Storable ==
    {s \in Requests :
        /\ Decodes(s)
        /\ Accepted(Validate(s))
        /\ ~NotNullFails(TupleOf(s))
        /\ ~CheckFails(TupleOf(s))}

\* endpoints.py after one registration, of any storable request, returned
\* its identifier: the store holds the one row.
InitStatistics ==
    /\ app = "endpoints"
    /\ \E s \in Storable :
          /\ table = {MkRow(1, TupleOf(s))}
          /\ returned = {Issued(TupleOf(s), 1)}
          /\ resp = Returned("generate", "w1", "insert", FALSE, s, 1)
    /\ seq = 1
    /\ writer = NoWorker
    /\ inTx = [w \in Workers |-> FALSE]
    /\ pending = [w \in Workers |-> {}]
    /\ pc = [w \in Workers |-> "idle"]
    /\ req = [w \in Workers |-> NoRequest]
    /\ lastrowid = [w \in Workers |-> 0]
    /\ raced = [w \in Workers |-> FALSE]
    /\ InitMain
    /\ vin = NoRequest
    /\ vout = NoVerdict

NextStatistics == \E w \in Workers, id \in StatIds : get_sample_statistics(w, id)

SpecStatistics == InitStatistics /\ [][NextStatistics]_vars


----------------------------------------------------------------------------
(* The vocabulary of the specification's claims about the validation *)

\* The specification's error kinds, by the exception the code raises.
Kind(r) ==
    IF r.exc = "none" THEN "Ok"
    ELSE IF r.msg = "Number of samples must be two or greater" THEN "ArityError"
    ELSE IF r.msg \in {"Uniform distribution requires exactly two parameters",
                       "Normal distribution requires exactly two parameters",
                       "Weibull distribution requires exactly two parameters",
                       "Uniform distribution requires two parameters",
                       "Normal distribution requires two parameters",
                       "Weibull distribution requires two parameters"}
         THEN "ShapeError"
    ELSE IF r.msg \in {"First parameter must be min", "Second parameter must be max",
                       "First parameter must be mean", "Second parameter must be std",
                       "First parameter must be shape", "Second parameter must be scale"}
         THEN "RoleError"
    ELSE IF r.msg \in {"Standard deviation must be positive",
                       "Shape must be positive", "Scale must be positive"}
         THEN "DomainError"
    ELSE IF r.msg = "Invalid distribution type" THEN "FamilyError"
    ELSE "Other"

\* The role-order table: the family's required ordered pair of roles.
RolePair(f) ==
    CASE f = "uniform" -> <<"min", "max">>
      [] f = "normal" -> <<"mean", "std">>
      [] f = "weibull" -> <<"shape", "scale">>

RolesMatch(s) ==
    /\ Len(s.params) = 2
    /\ s.params[1].param_type = RolePair(s.distribution_type)[1]
    /\ s.params[2].param_type = RolePair(s.distribution_type)[2]

\* x > 0 and x <= 0 for a float x; both are false of NaN.
Positive(x) == ~x.nan /\ x.v > 0
NonPositive(x) == ~x.nan /\ x.v <= 0

\* The family's value constraint on the two parameter values.
DomainHolds(s) ==
    CASE s.distribution_type = "uniform" -> TRUE
      [] s.distribution_type = "normal" -> Positive(s.params[2].param_val)
      [] s.distribution_type = "weibull" ->
            Positive(s.params[1].param_val) /\ Positive(s.params[2].param_val)

\* What the role-order table and the constraints accept.
TableAccepts(s) ==
    /\ s.num_samples >= 2
    /\ RolesMatch(s)
    /\ DomainHolds(s)

\* The rules a definition violates, and the earliest of them in the order
\* sample count, parameter count, parameter roles, value domain.
RulesViolated(s) ==
    (IF s.num_samples < 2 THEN {"ArityError"} ELSE {})
    \cup (IF Len(s.params) # 2 THEN {"ShapeError"} ELSE {})
    \cup (IF Len(s.params) = 2 /\ ~RolesMatch(s) THEN {"RoleError"} ELSE {})
    \cup (IF Len(s.params) >= 2 /\ ~DomainHolds(s) THEN {"DomainError"} ELSE {})

EarliestViolated(s) ==
    IF "ArityError" \in RulesViolated(s) THEN "ArityError"
    ELSE IF "ShapeError" \in RulesViolated(s) THEN "ShapeError"
    ELSE IF "RoleError" \in RulesViolated(s) THEN "RoleError"
    ELSE IF "DomainError" \in RulesViolated(s) THEN "DomainError"
    ELSE "Ok"

\* The request vin was posted and decoded into a Sample of a known family.
Validated == vout.posted /\ vout.decoded

----------------------------------------------------------------------------
(* Claims about the validation, checked under SpecValidate *)

\* C4: for every definition of a known family, each validation accepts it if
\* and only if num_samples >= 2, params is the family's ordered pair of roles
\* and the family's value constraint holds (normal: std > 0; weibull:
\* shape > 0 and scale > 0; uniform: none).
C4_AcceptsIffValid ==
    Validated =>
        /\ Accepted(vout.endpoints) <=> TableAccepts(vin)
        /\ Accepted(vout.main) <=> TableAccepts(vin)

\* The part of C4 that endpoints.py satisfies: the claim holds of its
\* validation for every definition whose parameter values are numbers.
C4_EndpointsAcceptsIffValidNumbers ==
    (Validated /\ \A i \in 1..Len(vin.params) : ~vin.params[i].param_val.nan) =>
        (Accepted(vout.endpoints) <=> TableAccepts(vin))

\* C7 as claimed: the validator itself rejects an unknown family tag with
\* FamilyError, reading no parameter, whatever params and num_samples are.
C7_UnknownFamilyIsFamilyError ==
    (vout.posted /\ vin.distribution_type \notin Distributions) =>
        /\ Kind(vout.endpoints) = "FamilyError"
        /\ vout.endpoints.reads = {}

\* C7 as amended: a definition with an unknown family tag is not decoded into
\* a Sample, so the handler does not run and nothing is stored; the handler's
\* own validation rejects it without reading a parameter, with FamilyError
\* when num_samples >= 2 and with ArityError when num_samples <= 1.
C7_UnknownFamilyRejected ==
    (vout.posted /\ vin.distribution_type \notin Distributions) =>
        /\ ~vout.decoded
        /\ ~Accepted(vout.endpoints)
        /\ vout.endpoints.reads = {}
        /\ Kind(vout.endpoints) =
              IF vin.num_samples >= 2 THEN "FamilyError" ELSE "ArityError"

C7_Witness ==
    /\ vout.posted
    /\ vin.distribution_type = UnknownTag
    /\ vin.num_samples >= 2
    /\ Len(vin.params) = 2
    /\ Kind(vout.endpoints) = "FamilyError"

\* C8: a definition that violates more than one rule is rejected with the
\* kind of the earliest violated rule in the order ArityError, ShapeError,
\* RoleError, DomainError; num_samples < 2 is ArityError whatever the params.
C8_EarliestRuleWins ==
    (Validated /\ Cardinality(RulesViolated(vin)) >= 2) =>
        /\ Kind(vout.endpoints) = EarliestViolated(vin)
        /\ Kind(vout.main) = EarliestViolated(vin)

\* The part of C8 that endpoints.py satisfies.
C8_EndpointsEarliestRuleWins ==
    (Validated /\ Cardinality(RulesViolated(vin)) >= 2) =>
        Kind(vout.endpoints) = EarliestViolated(vin)

\* C9: for a known family and num_samples >= 2, a params list whose length
\* is not 2 is rejected with ShapeError and no entry of it is read; a list of
\* length 2 whose roles are not the family's ordered pair is rejected with
\* RoleError.
C9_ShapeAndRoleErrors ==
    (Validated /\ vin.num_samples >= 2) =>
        /\ Len(vin.params) # 2 =>
              (Kind(vout.endpoints) = "ShapeError" /\ vout.endpoints.reads = {})
        /\ (Len(vin.params) = 2 /\ ~RolesMatch(vin)) =>
              Kind(vout.endpoints) = "RoleError"

C9_Witness ==
    /\ Validated
    /\ vin.num_samples >= 2
    /\ vin.distribution_type = "normal"
    /\ Len(vin.params) = 2
    /\ vin.params[1].param_type = "std"
    /\ vin.params[2].param_type = "mean"
    /\ Kind(vout.endpoints) = "RoleError"

\* C10: a definition with num_samples >= 2 and the family's roles in order is
\* rejected with DomainError when the family is normal and std <= 0, or the
\* family is weibull and shape <= 0 or scale <= 0; 0 is rejected as well as
\* the negative values.
C10_DomainErrors ==
    (Validated /\ vin.num_samples >= 2 /\ RolesMatch(vin)) =>
        /\ (vin.distribution_type = "normal"
              /\ NonPositive(vin.params[2].param_val))
              => Kind(vout.endpoints) = "DomainError"
        /\ (vin.distribution_type = "weibull"
              /\ (NonPositive(vin.params[1].param_val)
                    \/ NonPositive(vin.params[2].param_val)))
              => Kind(vout.endpoints) = "DomainError"

C10_Witness ==
    /\ Validated
    /\ vin.num_samples >= 2
    /\ vin.distribution_type = "weibull"
    /\ RolesMatch(vin)
    /\ vin.params[1].param_val = F(1)
    /\ vin.params[2].param_val = F(0)
    /\ Kind(vout.endpoints) = "DomainError"


----------------------------------------------------------------------------
(* Claims about registration and lookup, checked under Spec *)

\* The records the running application's store holds for tuple t.
RecordsFor(t) ==
    IF app = "main"
    THEN {i \in DOMAIN db : TupleOf(db[i]) = t}
    ELSE {r.id : r \in {x \in table : RowTuple(x) = t}}

\* The identifiers the running application's store holds a record for.
StoredIds == IF app = "main" THEN DOMAIN db ELSE {r.id : r \in table}

\* C1: registration is idempotent: every registration of a tuple returns the
\* identifier the first one returned, and the store holds exactly one record
\* for a registered tuple.
C1_RegistrationIdempotent ==
    /\ \A a, b \in returned : a.tuple = b.tuple => a.id = b.id
    /\ \A a \in returned : Cardinality(RecordsFor(a.tuple)) = 1

\* The part of C1 that endpoints.py satisfies.
C1_EndpointsRegistrationIdempotent ==
    app = "endpoints" => C1_RegistrationIdempotent

\* C2: whatever the interleaving of the INSERT, SELECT and commit steps of
\* the workers' registrations, no connection ever sees more than one record
\* for a tuple, committed or not, and all registrations of a tuple that
\* return an identifier return the same one.
C2_ConcurrentRegistrationsDedup ==
    app = "endpoints" =>
        /\ \A x, y \in table \cup UNION {pending[w] : w \in Workers} :
              RowTuple(x) = RowTuple(y) => x = y
        /\ \A a, b \in returned : a.tuple = b.tuple => a.id = b.id

\* Two registrations of one tuple were in flight together and both returned:
\* the later one found the row of the earlier one.
C2_Witness ==
    /\ app = "endpoints"
    /\ resp.op = "generate"
    /\ resp.exc = "none"
    /\ resp.via = "select"
    /\ resp.raced
    /\ Issued(TupleOf(resp.arg), resp.val) \in returned
    /\ Cardinality(RecordsFor(TupleOf(resp.arg))) = 1

\* C3: no identifier is returned for two distinct tuples.
C3_DistinctTuplesDistinctIds ==
    \A a, b \in returned : a.tuple # b.tuple => a.id # b.id

C3_Witness ==
    /\ app = "endpoints"
    /\ \E a, b \in returned :
          /\ a.tuple.num_samples # b.tuple.num_samples
          /\ [a.tuple EXCEPT !.num_samples = 0] = [b.tuple EXCEPT !.num_samples = 0]
    /\ resp.op = "generate" /\ resp.via = "select"

\* C5: a registration that fails, in the validation or in the store, changes
\* no committed record and no identifier counter and leaves nothing
\* uncommitted behind; the committed records change only in the step in which
\* a registration returns its new identifier.
C5_FailedRegistrationChangesNothing ==
    [][app = "endpoints" =>
        /\ (resp' # resp /\ resp'.op = "generate" /\ resp'.exc # "none") =>
              /\ table' = table
              /\ seq' = seq
              /\ pending'[resp'.w] = {}
        /\ (table' # table \/ seq' # seq) =>
              (resp'.op = "generate" /\ resp'.exc = "none" /\ resp'.via = "insert")
      ]_vars

\* A commit failed after the INSERT had added a row, with records in the store.
C5_Witness ==
    /\ app = "endpoints"
    /\ resp.op = "generate"
    /\ resp.exc = "sqlite3.Error"
    /\ resp.via = "commit"
    /\ table # {}
    /\ pending[resp.w] = {}

\* C6: get_sample_statistics called with an identifier the store holds no
\* record for raises ValueError and returns nothing.  (Records are never
\* removed: an identifier without a record now had none at the call.)
C6_UnknownIdRaisesValueError ==
    (resp.op = "statistics" /\ resp.arg \notin StoredIds) =>
        (resp.exc = "ValueError" /\ resp.val = <<>>)

\* The part of C6 that endpoints.py satisfies.
C6_EndpointsUnknownIdRaisesValueError ==
    app = "endpoints" => C6_UnknownIdRaisesValueError

\* The identifiers of the records a step adds to the store.
NewRecordIds ==
    IF app = "main"
    THEN (DOMAIN db') \ (DOMAIN db)
    ELSE {r.id : r \in table' \ table}

\* A registration returns in this step with an identifier it found by the
\* dedup SELECT.
Deduplicated ==
    /\ resp' # resp
    /\ resp'.op = "generate"
    /\ resp'.exc = "none"
    /\ resp'.via = "select"

\* C11: identifiers are assigned in strictly increasing order: a step in
\* which a registration creates a new record gives it an identifier greater
\* than the identifier of every record of the store and than every
\* identifier an earlier registration returned; a registration that is
\* deduplicated creates no record, moves no identifier counter and returns
\* the identifier of a record the store already holds.
C11_IdsStrictlyIncreasing ==
    [][/\ \A i \in NewRecordIds :
              /\ \A j \in StoredIds : j < i
              /\ \A a \in returned : a.id < i
       /\ Cardinality(NewRecordIds) <= 1
       /\ Deduplicated =>
              /\ NewRecordIds = {}
              /\ table' = table /\ seq' = seq
              /\ db' = db /\ ID' = ID
              /\ resp'.val \in StoredIds
      ]_vars

\* A second record was created after the first, and a registration of a
\* stored tuple was deduplicated in between or after.
C11_Witness ==
    /\ app = "endpoints"
    /\ StoredIds = {1, 2}
    /\ seq = 2
    /\ resp.op = "generate"
    /\ resp.exc = "none"
    /\ resp.via = "select"
    /\ \E a, b \in returned : a.id = 1 /\ b.id = 2

\* The last request was a statistics request that returned (sample_def, stats).
StatisticsReturned == resp.op = "statistics" /\ resp.exc = "none"

\* What the validator requires of a record: a known family, num_samples >= 2
\* and the family's value constraint on the two parameter values.
RecordValid(distribution_type, param_one, param_two, num_samples) ==
    /\ distribution_type \in {"uniform", "normal", "weibull"}
    /\ num_samples >= 2
    /\ distribution_type = "normal" => Positive(param_two)
    /\ distribution_type = "weibull" => (Positive(param_one) /\ Positive(param_two))

\* The rows of endpoints.py's table, committed or not.
AllRows == table \cup UNION {pending[w] : w \in Workers}

\* C14, for endpoints.py: every row of the table, committed or not,
\* satisfies the validator, and statistics are returned for such rows only.
C14_EndpointsStoredRecordsValid ==
    app = "endpoints" =>
        /\ \A r \in AllRows :
              RecordValid(r.distribution_type, r.param_one, r.param_two, r.num_samples)
        /\ StatisticsReturned => resp.val[1].num_samples >= 2

\* C14, for main.py: every value of db satisfies the validator, and
\* statistics are returned for such records only.
C14_MainStoredRecordsValid ==
    app = "main" =>
        /\ \A i \in DOMAIN db :
              RecordValid(db[i].distribution_type, db[i].params[1].param_val,
                          db[i].params[2].param_val, db[i].num_samples)
        /\ StatisticsReturned => resp.val[1].num_samples >= 2

\* C14: in every reachable state every record the store holds satisfies the
\* validator (known family, num_samples >= 2, normal: param_two > 0,
\* weibull: param_one > 0 and param_two > 0), and statistics are never
\* computed with num_samples < 2.
C14_StoredRecordsValid ==
    C14_EndpointsStoredRecordsValid /\ C14_MainStoredRecordsValid

\* C15: registration and lookup round-trip.  Once a registration of d has
\* returned identifier i, the store holds exactly one record with id i and
\* its four columns are d's family, params[0] value, params[1] value and
\* num_samples; get_sample_statistics(i) returns that record as its first
\* result; and the step in which a registration returns a new identifier
\* adds exactly one row, carrying those four values.
C15_RegistrationLookupRoundTrip ==
    [][app = "endpoints" =>
        /\ \A a \in returned' :
              /\ Cardinality({r \in table' : r.id = a.id}) = 1
              /\ \A r \in table' :
                    r.id = a.id =>
                        /\ r.distribution_type = a.tuple.distribution_type
                        /\ r.param_one = a.tuple.param_one
                        /\ r.param_two = a.tuple.param_two
                        /\ r.num_samples = a.tuple.num_samples
        /\ (resp'.op = "statistics" /\ resp'.exc = "none") =>
              /\ resp'.val[1] \in table'
              /\ resp'.val[1].id = resp'.arg
        /\ (resp' # resp /\ resp'.op = "generate" /\ resp'.exc = "none"
              /\ resp'.via = "insert") =>
              table' \ table =
                 {[id |-> resp'.val,
                   distribution_type |-> resp'.arg.distribution_type,
                   param_one |-> resp'.arg.params[1].param_val,
                   param_two |-> resp'.arg.params[2].param_val,
                   num_samples |-> resp'.arg.num_samples]}
        /\ table' # table =>
              (resp' # resp /\ resp'.op = "generate" /\ resp'.exc = "none"
                 /\ resp'.via = "insert")
      ]_vars

\* Statistics were returned for the second of two registered definitions,
\* whose two parameter values differ.
C15_Witness ==
    /\ app = "endpoints"
    /\ StatisticsReturned
    /\ resp.arg = 2
    /\ Cardinality(table) = 2
    /\ \E a \in returned :
          /\ a.id = 2
          /\ a.tuple = RowTuple(resp.val[1])
          /\ a.tuple.param_one # a.tuple.param_two

\* C16: every registration that has returned, with a new identifier, a
\* deduplicated identifier or an error, has ended the transaction it started
\* by a commit or a rollback: no connection has a transaction open, or holds
\* the write lock, while its worker is between requests.
C16_RegistrationEndsItsTransaction ==
    app = "endpoints" =>
        \A w \in Workers :
            pc[w] = "idle" => (~inTx[w] /\ writer # w /\ pending[w] = {})

\* The part of C16 the code satisfies: a registration that returns a new
\* identifier has committed, and one that fails in the store has rolled
\* back; each leaves its connection without a transaction.
C16_CommitAndRollbackEndTransaction ==
    [][(app = "endpoints" /\ resp' # resp /\ resp'.op = "generate"
          /\ resp'.via \in {"insert", "commit"}) =>
          (~inTx'[resp'.w] /\ writer' # resp'.w /\ pending'[resp'.w] = {})
      ]_vars

----------------------------------------------------------------------------
(* Claims about the statistics *)

\* C12: the theoretical moments get_sample_statistics returns are those of
\* the stored family and parameter values, whatever the random draw and
\* num_samples: for a normal(mean = p0, std = p1) record mean_dist = p0 and
\* std_dist = p1; for a uniform(min = p0, max = p1) record
\* mean_dist = (p0 + p1)/2 and std_dist = (p1 - p0)/sqrt(12).
C12_TheoreticalMoments ==
    (app = "endpoints" /\ StatisticsReturned) =>
        LET row == resp.val[1]
            stats == resp.val[2]
            p0 == row.param_one.v
            p1 == row.param_two.v
        IN  /\ row \in table
            /\ row.id = resp.arg
            /\ row.distribution_type = "normal" =>
                  /\ stats.mean_dist = [num |-> F(p0), den |-> 1, root |-> 1]
                  /\ stats.std_dist = [num |-> F(p1), den |-> 1, root |-> 1]
            /\ row.distribution_type = "uniform" =>
                  /\ stats.mean_dist = [num |-> F(p0 + p1), den |-> 2, root |-> 1]
                  /\ stats.std_dist = [num |-> F(p1 - p0), den |-> 1, root |-> 12]

\* Statistics of a stored uniform(0, 1) record came back with mean_dist 1/2
\* and std_dist 1/sqrt(12), for the largest num_samples and one of the draws.
C12_Witness ==
    /\ app = "endpoints"
    /\ StatisticsReturned
    /\ resp.val[1].distribution_type = "uniform"
    /\ resp.val[1].param_one = F(0)
    /\ resp.val[1].param_two = F(1)
    /\ resp.val[1].num_samples = MaxSamples
    /\ resp.val[2].mean_samples = F(1)
    /\ resp.val[2].mean_dist = [num |-> F(1), den |-> 2, root |-> 1]
    /\ resp.val[2].std_dist = [num |-> F(1), den |-> 1, root |-> 12]

\* C13: a statistics request, successful or failing, leaves the store as it
\* was: the records and their identifiers, the identifier counters, the
\* uncommitted rows, the open transactions and the write lock; the requests
\* in flight and the identifiers issued are not touched either, so the store
\* is at every point what the registrations alone made it.
C13_StatisticsLeaveStoreUnchanged ==
    [][(resp'.op = "statistics" /\ pc' = pc) =>
          /\ table' = table /\ seq' = seq
          /\ pending' = pending /\ inTx' = inTx /\ writer' = writer
          /\ db' = db /\ ID' = ID
          /\ req' = req /\ lastrowid' = lastrowid
          /\ returned' = returned
      ]_vars

\* Statistics were returned while the store held a record, the worker's
\* connection had a transaction open and the other worker was in the middle
\* of a registration.
C13_Witness ==
    /\ app = "endpoints"
    /\ StatisticsReturned
    /\ table # {}
    /\ inTx[resp.w]
    /\ \E w \in Workers \ {resp.w} : pc[w] = "insert"

\* The float q.num / (q.den * sqrt(q.root)) is >= 0 (den and root are
\* positive; NaN >= 0 is false).
NonNegative(q) == ~q.num.nan /\ q.num.v >= 0

C17_StdDistNonNegativeWhenOrdered ==
    (app = "endpoints" /\ StatisticsReturned
       /\ (resp.val[1].distribution_type = "uniform"
             => resp.val[1].param_one.v <= resp.val[1].param_two.v)) =>
        NonNegative(resp.val[2].std_dist)

============================================================================
